---- MODULE Spec2Model ----
(***************************************************************************)
(* Model of src/server.ts: an Express server with two routes.              *)
(*   GET /api/health   answers {status:"ok"}                               *)
(*   GET /api/weather  validates `city`, reads the credential, calls the   *)
(*                     upstream weather API, and maps the reply.           *)
(* Every request is one invocation of a handler; the weather handler has   *)
(* two suspension points (await fetch, await response.text()), so the      *)
(* invocations of several requests interleave there.                       *)
(***************************************************************************)
EXTENDS Integers, Sequences, FiniteSets, TLC

\* Number of requests the server receives in one behaviour.
MaxReq == 2

Reqs == 1..MaxReq

-----------------------------------------------------------------------------
(* JavaScript values.  Every value is a record tagged by its type.         *)

Undefined == [t |-> "undefined"]
JNull == [t |-> "null"]
JNum(n) == [t |-> "num", n |-> n]
JStr(s) == [t |-> "str", s |-> s]
JArr(a) == [t |-> "arr", a |-> a]
JObj(f) == [t |-> "obj", f |-> f]

\* A query-string or environment string, kept as its sequence of characters.
QStr(c) == [t |-> "qstr", c |-> c]

\* v is null or undefined: what ?. and ?? test, and what makes v.k throw.
Nullish(v) == v.t \in {"undefined", "null"}

\* !v for the values `city` and `apiKey` take: undefined or the empty string.
Falsy(v) == v.t = "undefined" \/ (v.t = "qstr" /\ v.c = <<>>)

\* v[k] for a v that is not nullish, k one of the keys the handler reads
\* (name, main, temp, weather, 0, description, icon): own property of an
\* object, first element of an array; a number has none of them.
Get(v, k) ==
  CASE v.t = "obj" -> IF k \in DOMAIN v.f THEN v.f[k] ELSE Undefined
    [] v.t = "arr" -> IF k = "0" /\ Len(v.a) > 0 THEN v.a[1] ELSE Undefined
    [] OTHER -> Undefined

\* v?.[k]
OptGet(v, k) == IF Nullish(v) THEN Undefined ELSE Get(v, k)

\* Variant: the default is never applied.
CoalesceNone(v, d) == v

\* v ?? d
Coalesce(v, d) == IF Nullish(v) THEN d ELSE v

-----------------------------------------------------------------------------
(* encodeURIComponent: unreserved characters are kept, every other         *)
(* character becomes the percent-escapes of its UTF-8 bytes.               *)

Unreserved ==
  {"A","B","C","D","E","F","G","H","I","J","K","L","M","N","O","P","Q","R",
   "S","T","U","V","W","X","Y","Z","a","b","c","d","e","f","g","h","i","j",
   "k","l","m","n","o","p","q","r","s","t","u","v","w","x","y","z","0","1",
   "2","3","4","5","6","7","8","9","-","_",".","!","~","*","'","(",")"}

PercentEscape(ch) ==
  CASE ch = " " -> <<"%","2","0">>
    [] ch = "&" -> <<"%","2","6">>
    [] ch = "ô" -> <<"%","C","3","%","B","4">>

RECURSIVE EncodeURIComponent(_)
EncodeURIComponent(c) ==
  IF c = <<>> THEN <<>>
  ELSE (IF Head(c) \in Unreserved THEN <<Head(c)>> ELSE PercentEscape(Head(c)))
       \o EncodeURIComponent(Tail(c))

\* String(v), as a template literal and encodeURIComponent apply it.
StringOf(v) ==
  IF v.t = "undefined" THEN <<"u","n","d","e","f","i","n","e","d">> ELSE v.c

\* The URL of the outbound call.
Url(c, key) ==
  [origin |-> "https://api.openweathermap.org", path |-> "/data/2.5/weather",
   q |-> EncodeURIComponent(StringOf(c)), appid |-> StringOf(key),
   units |-> "metric", lang |-> "fr"]

-----------------------------------------------------------------------------
(* Inputs: what a client sends, what the environment holds, what the       *)
(* upstream answers.                                                       *)

\* req.query.city: absent, empty, or a name with characters to escape.
Cities == {Undefined, QStr(<<>>), QStr(<<"S","t"," ","L","ô">>)}

\* process.env.OPENWEATHER_API_KEY: unset, set to "", or set.
ApiKeys == {Undefined, QStr(<<>>), QStr(<<"k","3","y">>)}

\* HTTP statuses of the upstream reply: both ends of 200-299, 404, another failure.
Statuses == {200, 299, 404, 500}

\* The text of a reply body: either the text of a JSON value or not JSON.
RawJson(v) == [t |-> "text", wf |-> TRUE, v |-> v]
RawBad(s) == [t |-> "text", wf |-> FALSE, s |-> s]
NoText == [t |-> "none"]

Clear == JObj([description |-> JStr("ciel dégagé"), icon |-> JStr("01d")])
Rain == JObj([description |-> JStr("pluie"), icon |-> JStr("10n")])
Temp(n) == JObj([temp |-> JNum(n)])

\* Bodies with name, main.temp and a first weather condition.
FullBodies ==
  { JObj([name |-> JStr("Paris"), main |-> Temp(15), weather |-> JArr(<<Clear>>)]),
    JObj([name |-> JStr("Lyon"), cod |-> JNum(200),
          main |-> JObj([temp |-> JNum(-3), humidity |-> JNum(80)]),
          weather |-> JArr(<<Rain, Clear>>)]) }

\* Bodies with name and main.temp whose weather is absent or an empty list.
NoWeatherBodies ==
  { JObj([name |-> JStr("Paris"), main |-> Temp(15)]),
    JObj([name |-> JStr("Paris"), main |-> Temp(15), weather |-> JArr(<<>>)]) }

\* Other JSON values.
OddBodies ==
  { JObj([name |-> JStr("Paris"), main |-> Temp(15), weather |-> JNull]),
    JObj([name |-> JStr("Paris"), main |-> Temp(15), weather |-> JArr(<<JObj(<<>>)>>)]),
    JObj([main |-> Temp(15), weather |-> JArr(<<Clear>>)]),
    JObj([name |-> JStr("Paris"), main |-> JObj(<<>>), weather |-> JArr(<<Clear>>)]),
    JObj([name |-> JStr("Paris"), weather |-> JArr(<<Clear>>)]),
    JObj([name |-> JStr("Paris"), main |-> JNull, weather |-> JArr(<<Clear>>)]),
    JObj([cod |-> JStr("404"), message |-> JStr("city not found")]),
    JNull }

RawTexts ==
  {RawJson(v) : v \in FullBodies \cup NoWeatherBodies \cup OddBodies}
    \cup {RawBad("<html>")}

-----------------------------------------------------------------------------
(* State.                                                                  *)
(*   apiKey  process.env.OPENWEATHER_API_KEY                               *)
(*   req     for every request, the frame of its handler invocation:       *)
(*     pc         "new" (not yet received), "fetch" (suspended at await    *)
(*                fetch), "text" (suspended at await response.text()),     *)
(*                "done" (handler returned)                                *)
(*     route      "none", "health" or "weather"                            *)
(*     city       req.query.city                                           *)
(*     calls      the outbound calls issued, by URL                        *)
(*     upStatus   response.status once fetch has resolved, 0 before        *)
(*     rawText    the body text once response.text() has resolved          *)
(*     parsed     JSON.parse was called on rawText                         *)
(*     exn        the text of the exception the catch block caught         *)
(*     responses  what was sent on res, in order                           *)
(*     uncaught   an exception left the handler                            *)

VARIABLES apiKey, req

vars == <<apiKey, req>>

NewFrame ==
  [pc |-> "new", route |-> "none", city |-> Undefined, calls |-> <<>>,
   upStatus |-> 0, rawText |-> NoText, parsed |-> FALSE, exn |-> "none",
   responses |-> <<>>, uncaught |-> FALSE]

\* An unhandled rejection ends the process.
Crashed == \E r \in Reqs : req[r].uncaught

-----------------------------------------------------------------------------
(* The handlers, as functions from the frame before a step to the frame    *)
(* after it.                                                               *)

\* JSON.stringify of an object literal: properties whose value is undefined
\* are left out.
Stringify(obj) ==
  JObj([k \in {k \in DOMAIN obj : obj[k] # Undefined} |-> obj[k]])

\* return res.status(status).json(obj)
Respond(q, status, obj) ==
  [q EXCEPT !.pc = "done",
            !.responses = Append(@, [status |-> status, body |-> Stringify(obj)])]

\* Variant: the health route reports a missing credential.
HealthDegraded(q) ==
  IF Falsy(apiKey)
  THEN Respond([q EXCEPT !.route = "health"], 503, [status |-> JStr("degraded")])
  ELSE Respond([q EXCEPT !.route = "health"], 200, [status |-> JStr("ok")])

\* app.get("/api/health", ...)
Health(q) ==
  Respond([q EXCEPT !.route = "health"], 200, [status |-> JStr("ok")])

\* Variant: no try/catch around the handler body.
CatchRethrow(q, err) == [q EXCEPT !.exn = err, !.uncaught = TRUE, !.pc = "done"]

\* catch (err) { console.error(err); return res.status(500).json(...) }
Catch(q, err) ==
  Respond([q EXCEPT !.exn = err], 500, [error |-> JStr("Erreur serveur.")])

\* Variant: the credential is checked before the parameter.
WeatherStartKeyFirst(q, key, c) ==
  LET q1 == [q EXCEPT !.route = "weather", !.city = c] IN
  IF Falsy(key)
  THEN Respond(q1, 500, [error |-> JStr("Clé API manquante côté serveur.")])
  ELSE IF Falsy(c)
  THEN Respond(q1, 400, [error |-> JStr("Paramètre 'city' manquant.")])
  ELSE [q1 EXCEPT !.calls = Append(@, Url(c, key)), !.pc = "fetch"]

\* Variant: the credential is not checked.
WeatherStartNoKeyCheck(q, key, c) ==
  LET q1 == [q EXCEPT !.route = "weather", !.city = c] IN
  IF Falsy(c)
  THEN Respond(q1, 400, [error |-> JStr("Paramètre 'city' manquant.")])
  ELSE [q1 EXCEPT !.calls = Append(@, Url(c, key)), !.pc = "fetch"]

\* The weather handler from its entry to await fetch(url).
WeatherStart(q, key, c) ==
  LET q1 == [q EXCEPT !.route = "weather", !.city = c] IN
  IF Falsy(c)
  THEN Respond(q1, 400, [error |-> JStr("Paramètre 'city' manquant.")])
  ELSE IF Falsy(key)
  THEN Respond(q1, 500, [error |-> JStr("Clé API manquante côté serveur.")])
  ELSE [q1 EXCEPT !.calls = Append(@, Url(c, key)), !.pc = "fetch"]

\* fetch(url) resolved with a response of this status; on to response.text().
FetchResolved(q, status) == [q EXCEPT !.upStatus = status, !.pc = "text"]

\* Variant: a failed call is issued once more.
FetchRejectedRetry(q) ==
  IF Len(q.calls) < 2
  THEN [q EXCEPT !.calls = Append(@, @[1])]
  ELSE Catch(q, "TypeError: fetch failed")

\* fetch(url) rejected: network failure.
FetchRejected(q) == Catch(q, "TypeError: fetch failed")

\* response.text() rejected: the body could not be read.
TextRejected(q) == Catch(q, "TypeError: terminated")

\* response.ok
IsOk(status) == 200 <= status /\ status <= 299

\* JSON.parse(rawText)
JSONParse(raw) ==
  IF raw.wf THEN [threw |-> FALSE, val |-> raw.v]
  ELSE [threw |-> TRUE, err |-> "SyntaxError: Unexpected token in JSON"]

\* Variant: description and icon exchanged.
BuildResultSwapped(data) ==
  IF Nullish(data)
  THEN [threw |-> TRUE, err |-> "TypeError: Cannot read properties of null (reading 'name')"]
  ELSE IF Nullish(Get(data, "main"))
  THEN [threw |-> TRUE, err |-> "TypeError: Cannot read properties of undefined (reading 'temp')"]
  ELSE [threw |-> FALSE,
        val |-> [city |-> Get(data, "name"),
                 temp |-> Get(Get(data, "main"), "temp"),
                 description |->
                   Coalesce(OptGet(OptGet(Get(data, "weather"), "0"), "icon"),
                            JStr("N/A")),
                 icon |->
                   Coalesce(OptGet(OptGet(Get(data, "weather"), "0"), "description"),
                            JStr("N/A"))]]

\* Variant: data.main?.temp, which does not throw when main is missing.
BuildResultGuarded(data) ==
  IF Nullish(data)
  THEN [threw |-> TRUE, err |-> "TypeError: Cannot read properties of null (reading 'name')"]
  ELSE [threw |-> FALSE,
        val |-> [city |-> Get(data, "name"),
                 temp |-> OptGet(Get(data, "main"), "temp"),
                 description |->
                   Coalesce(OptGet(OptGet(Get(data, "weather"), "0"), "description"),
                            JStr("N/A")),
                 icon |->
                   Coalesce(OptGet(OptGet(Get(data, "weather"), "0"), "icon"),
                            JStr("N/A"))]]

\* The object literal passed to res.json on the success path; reading a
\* property of null or undefined throws.
BuildResult(data) ==
  IF Nullish(data)
  THEN [threw |-> TRUE, err |-> "TypeError: Cannot read properties of null (reading 'name')"]
  ELSE IF Nullish(Get(data, "main"))
  THEN [threw |-> TRUE, err |-> "TypeError: Cannot read properties of undefined (reading 'temp')"]
  ELSE [threw |-> FALSE,
        val |-> [city |-> Get(data, "name"),
                 temp |-> Get(Get(data, "main"), "temp"),
                 description |->
                   Coalesce(OptGet(OptGet(Get(data, "weather"), "0"), "description"),
                            JStr("N/A")),
                 icon |->
                   Coalesce(OptGet(OptGet(Get(data, "weather"), "0"), "icon"),
                            JStr("N/A"))]]

\* Variant: the body is parsed before the status is looked at.
TextResolvedParseFirst(q, raw) ==
  LET q2 == [q EXCEPT !.rawText = raw, !.parsed = TRUE]
      p == JSONParse(raw)
  IN IF p.threw THEN Catch(q2, p.err)
     ELSE IF ~IsOk(q2.upStatus)
     THEN IF q2.upStatus = 404
          THEN Respond(q2, 404, [error |-> JStr("Ville introuvable.")])
          ELSE Respond(q2, 500, [error |-> JStr("Erreur lors de l'appel à l'API météo.")])
     ELSE LET b == BuildResult(p.val)
          IN IF b.threw THEN Catch(q2, b.err) ELSE Respond(q2, 200, b.val)

\* The weather handler from the resolution of response.text() to its return.
TextResolved(q, raw) ==
  LET q1 == [q EXCEPT !.rawText = raw] IN
  IF ~IsOk(q1.upStatus)
  THEN IF q1.upStatus = 404
       THEN Respond(q1, 404, [error |-> JStr("Ville introuvable.")])
       ELSE Respond(q1, 500, [error |-> JStr("Erreur lors de l'appel à l'API météo.")])
  ELSE LET q2 == [q1 EXCEPT !.parsed = TRUE]
           p == JSONParse(raw)
       IN IF p.threw THEN Catch(q2, p.err)
          ELSE LET b == BuildResult(p.val)
               IN IF b.threw THEN Catch(q2, b.err) ELSE Respond(q2, 200, b.val)

-----------------------------------------------------------------------------
(* Actions.  Requests are numbered in the order the server receives them.  *)

Received(r) == req[r].pc # "new"

\* Variant: the bindings live at module level, where the latest request
\* received has overwritten them.
FrameShared(r) ==
  LET recv == {p \in Reqs : Received(p)}
  IN IF recv = {} THEN req[r]
     ELSE req[CHOOSE p \in recv : \A p2 \in recv : p2 <= p]

\* The local bindings of invocation r (const city, response, rawText; res).
Frame(r) == req[r]

CanReceive(r) ==
  /\ ~Crashed
  /\ ~Received(r)
  /\ \A p \in Reqs : p < r => Received(p)

HealthRequest(r) ==
  /\ CanReceive(r)
  /\ req' = [req EXCEPT ![r] = Health(Frame(r))]
  /\ UNCHANGED apiKey

WeatherRequest(r) ==
  /\ CanReceive(r)
  /\ \E c \in Cities : req' = [req EXCEPT ![r] = WeatherStart(Frame(r), apiKey, c)]
  /\ UNCHANGED apiKey

FetchResolve(r) ==
  /\ ~Crashed
  /\ req[r].pc = "fetch"
  /\ \E s \in Statuses : req' = [req EXCEPT ![r] = FetchResolved(Frame(r), s)]
  /\ UNCHANGED apiKey

FetchReject(r) ==
  /\ ~Crashed
  /\ req[r].pc = "fetch"
  /\ req' = [req EXCEPT ![r] = FetchRejected(Frame(r))]
  /\ UNCHANGED apiKey

TextResolve(r) ==
  /\ ~Crashed
  /\ req[r].pc = "text"
  /\ \E raw \in RawTexts : req' = [req EXCEPT ![r] = TextResolved(Frame(r), raw)]
  /\ UNCHANGED apiKey

TextReject(r) ==
  /\ ~Crashed
  /\ req[r].pc = "text"
  /\ req' = [req EXCEPT ![r] = TextRejected(Frame(r))]
  /\ UNCHANGED apiKey

Init ==
  /\ apiKey \in ApiKeys
  /\ req = [r \in Reqs |-> NewFrame]

Next ==
  \E r \in Reqs :
    \/ HealthRequest(r)
    \/ WeatherRequest(r)
    \/ FetchResolve(r)
    \/ FetchReject(r)
    \/ TextResolve(r)
    \/ TextReject(r)

Spec == Init /\ [][Next]_vars

TypeOK ==
  /\ apiKey \in ApiKeys
  /\ \A r \in Reqs :
       /\ req[r].pc \in {"new", "fetch", "text", "done"}
       /\ req[r].route \in {"none", "health", "weather"}
       /\ req[r].city \in Cities
       /\ req[r].upStatus \in Statuses \cup {0}

-----------------------------------------------------------------------------
(* Properties.                                                             *)

Weather(r) == req[r].route = "weather"

Done(r) == req[r].pc = "done"

CityMissing(r) == req[r].city = Undefined \/ req[r].city = QStr(<<>>)

KeyMissing == apiKey = Undefined \/ apiKey = QStr(<<>>)

UpstreamOk(r) == req[r].upStatus >= 200 /\ req[r].upStatus <= 299

\* Request r was answered once, with this status and this JSON object.
AnsweredWith(r, status, obj) ==
  req[r].responses = <<[status |-> status, body |-> JObj(obj)]>>

ErrMissingCity == [error |-> JStr("Paramètre 'city' manquant.")]
ErrNoKey == [error |-> JStr("Clé API manquante côté serveur.")]
ErrNotFound == [error |-> JStr("Ville introuvable.")]
ErrUpstream == [error |-> JStr("Erreur lors de l'appel à l'API météo.")]
ErrServer == [error |-> JStr("Erreur serveur.")]

\* C1: a weather request whose city is absent or empty is answered 400 with
\* a body that has an error field, and issues no outbound call, whatever the
\* credential is.
C1_MissingCity400 ==
  \A r \in Reqs :
    (Weather(r) /\ CityMissing(r)) =>
      /\ Done(r)
      /\ Len(req[r].responses) = 1
      /\ req[r].responses[1].status = 400
      /\ "error" \in DOMAIN req[r].responses[1].body.f
      /\ req[r].calls = <<>>

C1_Witness ==
  \E r \in Reqs :
    Weather(r) /\ req[r].city = QStr(<<>>) /\ apiKey = Undefined /\ Done(r)

\* C2 as stated: every weather request made while the credential is absent,
\* also one that lacks city, is answered 500 and issues no outbound call.
C2_AsStated ==
  \A r \in Reqs :
    (Weather(r) /\ KeyMissing) =>
      /\ Done(r)
      /\ Len(req[r].responses) = 1
      /\ req[r].responses[1].status = 500
      /\ req[r].calls = <<>>

\* C2 amended: while the credential is absent no weather request issues an
\* outbound call; one that carries a non-empty city is answered 500, one
\* that lacks city is answered 400.
C2_NoKey500 ==
  \A r \in Reqs :
    (Weather(r) /\ KeyMissing) =>
      /\ Done(r)
      /\ req[r].calls = <<>>
      /\ ~CityMissing(r) => AnsweredWith(r, 500, ErrNoKey)
      /\ CityMissing(r) => AnsweredWith(r, 400, ErrMissingCity)

C2_Witness ==
  \E r \in Reqs :
    Weather(r) /\ ~CityMissing(r) /\ apiKey = Undefined /\ Done(r)

\* C3: once the body of a reply with a failure status has been read, the
\* answer is 404 "Ville introuvable." exactly when the upstream status is 404
\* and 500 with the upstream-error message otherwise; the body is not parsed
\* and the answer is one of these two fixed bodies.
C3_UpstreamFailure ==
  \A r \in Reqs :
    (Weather(r) /\ req[r].rawText # NoText /\ ~UpstreamOk(r)) =>
      /\ Done(r)
      /\ ~req[r].parsed
      /\ req[r].exn = "none"
      /\ req[r].upStatus = 404 => AnsweredWith(r, 404, ErrNotFound)
      /\ req[r].upStatus # 404 => AnsweredWith(r, 500, ErrUpstream)

C3_Witness ==
  \E r \in Reqs :
    Weather(r) /\ req[r].upStatus = 404 /\ req[r].rawText = RawBad("<html>") /\ Done(r)

\* C4: a success status with a body that has name, main.temp and a first
\* weather condition with description and icon is answered 200 with exactly
\* these four values.
C4_SuccessMapping ==
  \A r \in Reqs : \A v \in FullBodies :
    (Weather(r) /\ UpstreamOk(r) /\ req[r].rawText = RawJson(v)) =>
      AnsweredWith(r, 200,
        [city |-> v.f.name, temp |-> v.f.main.f.temp,
         description |-> v.f.weather.a[1].f.description,
         icon |-> v.f.weather.a[1].f.icon])

C4_Witness ==
  \E r \in Reqs : \E v \in FullBodies :
    /\ Weather(r) /\ req[r].upStatus = 299 /\ req[r].rawText = RawJson(v)
    /\ v.f.name = JStr("Lyon") /\ Done(r)

\* C5: a success status with a body whose weather is absent or an empty list
\* is answered 200 with description "N/A" and icon "N/A", city and temp being
\* the body's name and main.temp.
C5_DefaultNA ==
  \A r \in Reqs : \A v \in NoWeatherBodies :
    (Weather(r) /\ UpstreamOk(r) /\ req[r].rawText = RawJson(v)) =>
      AnsweredWith(r, 200,
        [city |-> v.f.name, temp |-> v.f.main.f.temp,
         description |-> JStr("N/A"), icon |-> JStr("N/A")])

C5_Witness ==
  \E r \in Reqs : \E v \in NoWeatherBodies :
    /\ Weather(r) /\ UpstreamOk(r) /\ req[r].rawText = RawJson(v)
    /\ "weather" \in DOMAIN v.f /\ Done(r)

\* C6: when the outbound call, the reading of its body or the parsing raises
\* an exception, whatever the upstream status, the request is answered 500
\* "Erreur serveur.", the answer does not carry the exception text, the
\* exception does not leave the handler, and the server still accepts the
\* next request.
C6_CatchAll ==
  \A r \in Reqs :
    req[r].exn # "none" =>
      /\ Done(r)
      /\ AnsweredWith(r, 500, ErrServer)
      /\ req[r].responses[1].body.f.error # JStr(req[r].exn)
      /\ ~req[r].uncaught
      /\ \A p \in Reqs :
           (~Received(p) /\ \A p2 \in Reqs : p2 < p => Received(p2)) =>
             ENABLED HealthRequest(p) /\ ENABLED WeatherRequest(p)

C6_Witness ==
  \E r, p \in Reqs :
    /\ req[r].exn = "TypeError: terminated" /\ req[r].upStatus = 404 /\ Done(r)
    /\ r < p /\ ~Received(p)

\* C7: every health request is answered 200 {status:"ok"} without an
\* outbound call, whatever the credential and whatever weather requests are
\* in flight.
C7_Health ==
  \A r \in Reqs :
    /\ req[r].route = "health" =>
         Done(r) /\ AnsweredWith(r, 200, [status |-> JStr("ok")]) /\ req[r].calls = <<>>
    /\ (~Received(r) /\ \A p \in Reqs : p < r => Received(p)) =>
         ENABLED HealthRequest(r)

C7_Witness ==
  \E r, p \in Reqs :
    req[r].route = "health" /\ Done(r) /\ p < r /\ req[p].pc = "fetch"

\* The body is a JSON object without name, without main, or with a main
\* that has no temp.
UnexpectedShape(v) ==
  /\ v.t = "obj"
  /\ \/ "name" \notin DOMAIN v.f
     \/ "main" \notin DOMAIN v.f
     \/ v.f.main.t = "obj" /\ "temp" \notin DOMAIN v.f.main.f

\* The body is null, or an object whose main is absent or null.
NoMain(v) ==
  \/ v.t = "null"
  \/ v.t = "obj" /\ ("main" \notin DOMAIN v.f \/ v.f.main.t = "null")

\* C8 as stated: a success status with a parseable body of unexpected shape
\* (no name, no main, or main without temp) is answered 500 "Erreur
\* serveur.", never 200.
C8_AsStated ==
  \A r \in Reqs :
    (Weather(r) /\ UpstreamOk(r) /\ req[r].rawText # NoText /\ req[r].rawText.wf
       /\ UnexpectedShape(req[r].rawText.v)) =>
      AnsweredWith(r, 500, ErrServer)

\* C8 amended: a success status with a parseable body that is null or whose
\* main is absent or null is answered 500 "Erreur serveur.", never 200; a
\* body that has a main object and only lacks name or main.temp is answered
\* 200 with that field left out.
C8_NoMain500 ==
  \A r \in Reqs :
    (Weather(r) /\ UpstreamOk(r) /\ req[r].rawText # NoText /\ req[r].rawText.wf) =>
      LET v == req[r].rawText.v IN
      /\ NoMain(v) =>
           AnsweredWith(r, 500, ErrServer) /\ req[r].exn # "none"
      /\ (UnexpectedShape(v) /\ ~NoMain(v)) =>
           /\ Len(req[r].responses) = 1
           /\ req[r].responses[1].status = 200
           /\ req[r].exn = "none"
           /\ "name" \notin DOMAIN v.f => "city" \notin DOMAIN req[r].responses[1].body.f
           /\ "temp" \notin DOMAIN v.f.main.f => "temp" \notin DOMAIN req[r].responses[1].body.f

C8_Witness ==
  \E r \in Reqs :
    /\ Weather(r) /\ UpstreamOk(r) /\ Done(r)
    /\ req[r].rawText = RawJson(JObj([name |-> JStr("Paris"), weather |-> JArr(<<Clear>>)]))

\* The outbound call of r has returned and its body was read or found
\* unreadable, or the call has failed.
UpstreamSettled(r) ==
  \/ req[r].exn = "TypeError: fetch failed"
  \/ req[r].upStatus # 0 /\ (req[r].rawText # NoText \/ req[r].exn = "TypeError: terminated")

\* C9: a weather request issues at most one outbound call, also after the
\* call failed or returned a failure status, and a request that issued its
\* call is answered only once the call has returned or failed: while the
\* upstream has not answered, the request has no response.
C9_OneCallNoRetry ==
  \A r \in Reqs :
    /\ Len(req[r].calls) <= 1
    /\ (req[r].calls # <<>> /\ req[r].responses # <<>>) => UpstreamSettled(r)
    /\ req[r].pc \in {"fetch", "text"} =>
         req[r].calls # <<>> /\ req[r].responses = <<>> /\ ~UpstreamSettled(r)

C9_Witness ==
  \E r \in Reqs :
    /\ Done(r) /\ req[r].exn = "TypeError: fetch failed"
    /\ Len(req[r].calls) = 1 /\ Len(req[r].responses) = 1

\* How the outbound call of r ended.
Reply(r) ==
  [status |-> req[r].upStatus, text |-> req[r].rawText,
   failed |-> req[r].exn \in {"TypeError: fetch failed", "TypeError: terminated"}]

C10_State ==
  /\ \A r \in Reqs :
       /\ Len(req[r].responses) <= 1
       /\ Done(r) <=> Len(req[r].responses) = 1
  /\ \A r1, r2 \in Reqs :
       (Weather(r1) /\ Weather(r2) /\ Done(r1) /\ Done(r2)
          /\ req[r1].city = req[r2].city /\ Reply(r1) = Reply(r2)) =>
         req[r1].responses = req[r2].responses

C10_Step ==
  /\ \A r \in Reqs : req[r].responses # <<>> => req'[r] = req[r]
  /\ \A r1, r2 \in Reqs : (req'[r1] # req[r1] /\ r1 # r2) => req'[r2] = req[r2]
  /\ \A r \in Reqs : Received(r) => req'[r].city = req[r].city
  /\ apiKey' = apiKey

\* C10: with several weather requests in flight, every request gets exactly
\* one response, nothing of an answered request changes afterwards, a step of
\* one handler changes no other request, and two requests with the same city
\* and the same upstream reply get the same response whatever the
\* interleaving.
C10_Independent == [](C10_State) /\ [][C10_Step]_vars

C10_Witness ==
  /\ MaxReq >= 2
  /\ Weather(1) /\ req[1].pc = "text"
  /\ Weather(2) /\ Done(2) /\ req[2].upStatus = 200

====
